---------------------------- MODULE Spec2Model ----------------------------
(***************************************************************************)
(* Multi-backend chat client: the five provider adapters                   *)
(* (src/ai_providers.py, repeated in src/combinedoldcode.py), the          *)
(* command-line conversation loop (src/oldcode.py) and the Streamlit page  *)
(* (src/combinedoldcode.py).                                               *)
(*                                                                         *)
(* A text is a sequence of one-character strings, so that str.lower() is   *)
(* a real conversion.  A vendor backend is an oracle: for every request an *)
(* adapter makes it holds one canned outcome (a text, a transport/auth     *)
(* failure, or a payload of unexpected shape).                             *)
(***************************************************************************)
EXTENDS Naturals, Sequences, FiniteSets

VARIABLES
    frontend,              \* "cli" (oldcode.py), "web" (combinedoldcode.py), "harness"
    pc,                    \* "awaiting_provider_setup" | "active" | "ended"
    session_keys,          \* web: the keys present in st.session_state
    ai_provider,           \* "None" or the adapter variant in use
    conversation_history,  \* sequence of Message
    prompt,                \* the text read by the last step (prompt / user_input)
    last_op,               \* the handler that made the last step
    calls,                 \* the get_completion invocations of the last step
    display                \* what the last step showed

vars == <<frontend, pc, session_keys, ai_provider, conversation_history,
          prompt, last_op, calls, display>>

---------------------------------------------------------------------------
(* Bounds of the model *)

\* longest conversation_history the front-ends may build
MaxHistory == 4
\* longest history the adapter harness passes to get_completion
MaxProbeLen == 2

---------------------------------------------------------------------------
(* Texts *)

T_a == <<"a">>
T_b == <<"b">>
T_c == <<"c">>
T_ok == <<"o", "k">>
T_empty == <<>>
T_thanks == <<"t", "h", "a", "n", "k", "s">>
T_thank_you == <<"t", "h", "a", "n", "k", " ", "y", "o", "u">>
T_Thank_You == <<"T", "h", "a", "n", "k", " ", "Y", "o", "u">>
T_THANKS == <<"T", "H", "A", "N", "K", "S">>
T_sp_thanks == <<" ", "t", "h", "a", "n", "k", "s">>

\* str.lower(), character by character
LowerChar(ch) ==
    CASE ch = "A" -> "a"
      [] ch = "H" -> "h"
      [] ch = "K" -> "k"
      [] ch = "N" -> "n"
      [] ch = "O" -> "o"
      [] ch = "S" -> "s"
      [] ch = "T" -> "t"
      [] ch = "U" -> "u"
      [] ch = "Y" -> "y"
      [] OTHER -> ch

Lower(text) == [i \in 1..Len(text) |-> LowerChar(text[i])]

\* the list literal ["thank you", "thanks"]
TerminationPhrases == {T_thank_you, T_thanks}

\* texts typed at the command-line prompt
CliInputs == {T_a, T_sp_thanks, T_thanks, T_Thank_You, T_THANKS}
\* texts typed into the page's text_input
WebInputs == {T_a, T_c, T_empty}
\* texts a backend is configured to answer with
Replies == {T_b, T_ok}

---------------------------------------------------------------------------
(* Messages and adapter results *)

Providers == {"OpenAI", "Gemini", "Watson", "DeepAI", "Clarifai"}

Message(role, content) == [role |-> role, content |-> content]

Last(s) == s[Len(s)]

Return(exchanges, text) ==
    [exchanges |-> exchanges, ok |-> TRUE, val |-> text, err |-> "none"]

Raise(exchanges, exc) ==
    [exchanges |-> exchanges, ok |-> FALSE, val |-> <<>>, err |-> exc]

\* one request of an adapter together with the outcome the backend held for it
Exchange(request, canned) == [request |-> request, canned |-> canned]

\* the outcomes a backend may hold for one request
CannedText(t) == [kind |-> "text", text |-> t]
CannedFault(k) == [kind |-> k, text |-> <<>>]
Canned == {CannedText(t) : t \in Replies}
            \cup {CannedFault("transport"), CannedFault("malformed")}

---------------------------------------------------------------------------
(* Provider adapters: get_completion(messages), with the backend's canned  *)
(* outcomes, one per request, as second argument                           *)

OpenAIModel == "gpt-4o-mini-2024-07-18"
Temperature == 0

\* the completion object the chat-completion backend answers with
OpenAI_response(canned) ==
    [choices |-> IF canned.kind = "text"
                 THEN <<[message |-> [content |-> canned.text]]>>
                 ELSE <<>>]

\* variant: the request carries only the last Message
OpenAI_get_completion_last_only(messages, backend) ==
    LET request == [op |-> "chat.completions.create", model |-> OpenAIModel,
                    messages |-> SubSeq(messages, Len(messages), Len(messages)),
                    temperature |-> Temperature]
        ex == <<Exchange(request, backend[1])>>
    IN  IF backend[1].kind = "transport" THEN Raise(ex, "APIError")
        ELSE LET response == OpenAI_response(backend[1])
             IN  IF Len(response.choices) = 0 THEN Raise(ex, "IndexError")
                 ELSE Return(ex, response.choices[1].message.content)

OpenAI_get_completion(messages, backend) ==
    LET request == [op |-> "chat.completions.create", model |-> OpenAIModel,
                    messages |-> messages, temperature |-> Temperature]
        ex == <<Exchange(request, backend[1])>>
    IN  IF backend[1].kind = "transport" THEN Raise(ex, "APIError")
        ELSE LET response == OpenAI_response(backend[1])
             IN  IF Len(response.choices) = 0 THEN Raise(ex, "IndexError")
                 ELSE Return(ex, response.choices[1].message.content)

\* model.start_chat(): a session with no history
Gemini_start_chat == <<>>

\* the for loop over messages: chat.send_message for the user-role ones
RECURSIVE Gemini_replay(_, _, _, _, _)
Gemini_replay(messages, i, backend, ex, chat) ==
    IF i > Len(messages) THEN [exchanges |-> ex, chat |-> chat, raised |-> FALSE]
    ELSE IF messages[i].role = "user"
         THEN LET k == Len(ex) + 1
                  request == [op |-> "send_message",
                              content |-> messages[i].content,
                              prior |-> Len(chat)]
                  ex2 == Append(ex, Exchange(request, backend[k]))
              IN  IF backend[k].kind = "transport"
                  THEN [exchanges |-> ex2, chat |-> chat, raised |-> TRUE]
                  ELSE Gemini_replay(messages, i + 1, backend, ex2,
                         chat \o <<[role |-> "user", kind |-> "text",
                                    text |-> messages[i].content],
                                   [role |-> "model", kind |-> backend[k].kind,
                                    text |-> backend[k].text]>>)
         ELSE Gemini_replay(messages, i + 1, backend, ex, chat)

\* variant: only the last Message is sent, as the other adapters do
Gemini_get_completion_last_only(messages, backend) ==
    LET request == [op |-> "send_message", content |-> Last(messages).content,
                    prior |-> 0]
        ex == <<Exchange(request, backend[1])>>
    IN  IF backend[1].kind = "transport" THEN Raise(ex, "GoogleAPIError")
        ELSE IF backend[1].kind # "text" THEN Raise(ex, "ValueError")
        ELSE Return(ex, backend[1].text)

Gemini_get_completion(messages, backend) ==
    LET r == Gemini_replay(messages, 1, backend, <<>>, Gemini_start_chat)
    IN  IF r.raised THEN Raise(r.exchanges, "GoogleAPIError")
        ELSE IF Len(r.chat) = 0 THEN Raise(r.exchanges, "AttributeError")
        ELSE IF Last(r.chat).kind # "text" THEN Raise(r.exchanges, "ValueError")
        ELSE Return(r.exchanges, Last(r.chat).text)

\* create_session(...).get_result()
Watson_session(canned) ==
    IF canned.kind = "text" THEN [session_id |-> "session"]
    ELSE [code |-> "error"]

\* message(...).get_result()
Watson_response(canned) ==
    [output |-> [generic |-> IF canned.kind = "text"
                             THEN <<[response_type |-> "text", text |-> canned.text]>>
                             ELSE <<>>]]

\* variant: messages[0] in place of messages[-1]
Watson_get_completion_first(messages, backend) ==
    LET req1 == [op |-> "create_session", assistant_id |-> "assistant_id"]
        ex1 == <<Exchange(req1, backend[1])>>
    IN  IF backend[1].kind = "transport" THEN Raise(ex1, "ApiException")
        ELSE LET session == Watson_session(backend[1])
             IN  IF "session_id" \notin DOMAIN session THEN Raise(ex1, "KeyError")
                 ELSE IF Len(messages) = 0 THEN Raise(ex1, "IndexError")
                 ELSE LET req2 == [op |-> "message",
                                   assistant_id |-> "assistant_id",
                                   session_id |-> session.session_id,
                                   input |-> [text |-> messages[1].content]]
                          ex2 == Append(ex1, Exchange(req2, backend[2]))
                      IN  IF backend[2].kind = "transport"
                          THEN Raise(ex2, "ApiException")
                          ELSE LET response == Watson_response(backend[2])
                               IN  IF Len(response.output.generic) = 0
                                   THEN Raise(ex2, "IndexError")
                                   ELSE Return(ex2, response.output.generic[1].text)

Watson_get_completion(messages, backend) ==
    LET req1 == [op |-> "create_session", assistant_id |-> "assistant_id"]
        ex1 == <<Exchange(req1, backend[1])>>
    IN  IF backend[1].kind = "transport" THEN Raise(ex1, "ApiException")
        ELSE LET session == Watson_session(backend[1])
             IN  IF "session_id" \notin DOMAIN session THEN Raise(ex1, "KeyError")
                 ELSE IF Len(messages) = 0 THEN Raise(ex1, "IndexError")
                 ELSE LET req2 == [op |-> "message",
                                   assistant_id |-> "assistant_id",
                                   session_id |-> session.session_id,
                                   input |-> [text |-> Last(messages).content]]
                          ex2 == Append(ex1, Exchange(req2, backend[2]))
                      IN  IF backend[2].kind = "transport"
                          THEN Raise(ex2, "ApiException")
                          ELSE LET response == Watson_response(backend[2])
                               IN  IF Len(response.output.generic) = 0
                                   THEN Raise(ex2, "IndexError")
                                   ELSE Return(ex2, response.output.generic[1].text)

\* response.json() of the text-generator endpoint
DeepAI_json(canned) ==
    IF canned.kind = "text" THEN [output |-> canned.text]
    ELSE [status |-> "error"]

DeepAI_get_completion(messages, backend) ==
    IF Len(messages) = 0 THEN Raise(<<>>, "IndexError")
    ELSE LET request == [op |-> "POST",
                         url |-> "https://api.deepai.org/api/text-generator",
                         data |-> [text |-> Last(messages).content]]
             ex == <<Exchange(request, backend[1])>>
         IN  IF backend[1].kind = "transport" THEN Raise(ex, "RequestException")
             ELSE LET json == DeepAI_json(backend[1])
                  IN  IF "output" \notin DOMAIN json THEN Raise(ex, "KeyError")
                      ELSE Return(ex, json.output)

\* response.json() of the model outputs endpoint
Clarifai_json(canned) ==
    IF canned.kind = "text"
    THEN [status |-> "ok", outputs |-> <<[data |-> [text |-> [raw |-> canned.text]]]>>]
    ELSE [status |-> "error"]

\* variant: the raw text of the request is returned, not that of the response
Clarifai_get_completion_echo(messages, backend) ==
    IF Len(messages) = 0 THEN Raise(<<>>, "IndexError")
    ELSE LET request == [op |-> "POST",
                         url |-> "https://api.clarifai.com/v2/users/user_id/apps/app_id/models/model_id/outputs",
                         json |-> [inputs |-> <<[data |-> [text |->
                                      [raw |-> Last(messages).content]]]>>]]
             ex == <<Exchange(request, backend[1])>>
         IN  IF backend[1].kind = "transport" THEN Raise(ex, "RequestException")
             ELSE LET json == Clarifai_json(backend[1])
                  IN  IF "outputs" \notin DOMAIN json THEN Raise(ex, "KeyError")
                      ELSE IF Len(json.outputs) = 0 THEN Raise(ex, "IndexError")
                      ELSE Return(ex, request.json.inputs[1].data.text.raw)

Clarifai_get_completion(messages, backend) ==
    IF Len(messages) = 0 THEN Raise(<<>>, "IndexError")
    ELSE LET request == [op |-> "POST",
                         url |-> "https://api.clarifai.com/v2/users/user_id/apps/app_id/models/model_id/outputs",
                         json |-> [inputs |-> <<[data |-> [text |->
                                      [raw |-> Last(messages).content]]]>>]]
             ex == <<Exchange(request, backend[1])>>
         IN  IF backend[1].kind = "transport" THEN Raise(ex, "RequestException")
             ELSE LET json == Clarifai_json(backend[1])
                  IN  IF "outputs" \notin DOMAIN json THEN Raise(ex, "KeyError")
                      ELSE IF Len(json.outputs) = 0 THEN Raise(ex, "IndexError")
                      ELSE Return(ex, json.outputs[1].data.text.raw)

\* AIProvider.get_completion, dispatched on the variant
get_completion(provider, messages, backend) ==
    CASE provider = "OpenAI" -> OpenAI_get_completion(messages, backend)
      [] provider = "Gemini" -> Gemini_get_completion(messages, backend)
      [] provider = "Watson" -> Watson_get_completion(messages, backend)
      [] provider = "DeepAI" -> DeepAI_get_completion(messages, backend)
      [] provider = "Clarifai" -> Clarifai_get_completion(messages, backend)

\* the number of requests a call can make, at most
NumRequests(provider, messages) ==
    CASE provider = "Gemini" ->
             Cardinality({i \in 1..Len(messages) : messages[i].role = "user"})
      [] provider = "Watson" -> 2
      [] OTHER -> 1

\* the backends that answer n requests: one canned outcome per request; no
\* request follows a transport failure (the call has raised), so the outcomes
\* after one are fixed
RECURSIVE BackendsFor(_)
BackendsFor(n) ==
    IF n = 0 THEN {<<>>}
    ELSE {<<c>> \o rest : c \in Canned \ {CannedFault("transport")},
                          rest \in BackendsFor(n - 1)}
           \cup {[i \in 1..n |-> CannedFault("transport")]}

\* the backends a call may meet
Backends(provider, messages) == BackendsFor(NumRequests(provider, messages))

\* one invocation of get_completion, as the last step's record keeps it
Invocation(provider, messages, backend) ==
    [provider |-> provider, messages |-> messages,
     result |-> get_completion(provider, messages, backend)]

---------------------------------------------------------------------------
(* Command-line front-end (src/oldcode.py) *)

\* setup_ai_provider(): the adapter the menu choice constructs
Cli_setup_ai_provider(choice) ==
    CASE choice = "1" -> "OpenAI"
      [] choice = "2" -> "Gemini"
      [] choice = "3" -> "Watson"
      [] choice = "4" -> "DeepAI"
      [] choice = "5" -> "Clarifai"
      [] OTHER -> "OpenAI"

CliChoices == {"1", "2", "3", "4", "5", "9"}

\* variant: the termination test without lower()
Cli_wants_to_end_exact(text) == text \in TerminationPhrases

\* prompt.lower() in ["thank you", "thanks"]
Cli_wants_to_end(text) == Lower(text) \in TerminationPhrases

\* variant: the assistant Message is put before the user Message
Cli_after_swapped(h1, inv) ==
    IF inv.result.ok
    THEN [history |-> SubSeq(h1, 1, Len(h1) - 1)
                        \o <<Message("assistant", inv.result.val), Last(h1)>>,
          calls |-> <<inv>>, display |-> "assistant"]
    ELSE [history |-> h1, calls |-> <<inv>>, display |-> "error"]

\* variant: the except branch takes the user Message back
Cli_after_rollback(h1, inv) ==
    IF inv.result.ok
    THEN [history |-> Append(h1, Message("assistant", inv.result.val)),
          calls |-> <<inv>>, display |-> "assistant"]
    ELSE [history |-> SubSeq(h1, 1, Len(h1) - 1),
          calls |-> <<inv>>, display |-> "error"]

\* the try block: the assistant Message is appended only if the call returned
Cli_after(h1, inv) ==
    IF inv.result.ok
    THEN [history |-> Append(h1, Message("assistant", inv.result.val)),
          calls |-> <<inv>>, display |-> "assistant"]
    ELSE [history |-> h1, calls |-> <<inv>>, display |-> "error"]

\* variant: the adapter is called before the user Message is appended
Cli_turn_call_first(history, provider, text, backend) ==
    Cli_after(Append(history, Message("user", text)),
              Invocation(provider, history, backend))

\* the body of the loop after the termination test: append, call, append
Cli_turn(history, provider, text, backend) ==
    LET h1 == Append(history, Message("user", text))
    IN  Cli_after(h1, Invocation(provider, h1, backend))

CliSetup ==
    /\ frontend = "cli"
    /\ pc = "awaiting_provider_setup"
    /\ \E choice \in CliChoices :
          ai_provider' = Cli_setup_ai_provider(choice)
    /\ conversation_history' = <<>>
    /\ pc' = "active"
    /\ last_op' = "setup"
    /\ display' = "welcome"
    /\ calls' = <<>>
    /\ UNCHANGED <<frontend, session_keys, prompt>>

\* one iteration of the while loop
CliLoop ==
    /\ frontend = "cli"
    /\ pc = "active"
    /\ \E text \in CliInputs :
          /\ prompt' = text
          /\ IF Cli_wants_to_end(text)
             THEN /\ pc' = "ended"
                  /\ display' = "goodbye"
                  /\ calls' = <<>>
                  /\ UNCHANGED conversation_history
             ELSE /\ Len(conversation_history) < MaxHistory
                  /\ \E backend \in Backends(ai_provider,
                                    Append(conversation_history, Message("user", text))) :
                       \E t \in {Cli_turn(conversation_history, ai_provider, text, backend)} :
                          /\ Len(t.history) <= MaxHistory
                          /\ conversation_history' = t.history
                          /\ calls' = t.calls
                          /\ display' = t.display
                          /\ pc' = "active"
    /\ last_op' = "loop"
    /\ UNCHANGED <<frontend, session_keys, ai_provider>>

---------------------------------------------------------------------------
(* Streamlit front-end (src/combinedoldcode.py): one action per script run *)

SessionKeys == {"conversation_history", "ai_provider"}

\* variant: conversation_history is set on every run
initialize_session_state_always(keys, history, provider) ==
    [keys |-> keys \cup SessionKeys,
     conversation_history |-> <<>>,
     ai_provider |-> IF "ai_provider" \in keys THEN provider ELSE "None"]

\* initialize_session_state(): set only the keys that are absent
initialize_session_state(keys, history, provider) ==
    [keys |-> keys \cup SessionKeys,
     conversation_history |->
         IF "conversation_history" \in keys THEN history ELSE <<>>,
     ai_provider |-> IF "ai_provider" \in keys THEN provider ELSE "None"]

\* the state named in the design: no provider yet, or chatting
Web_state(provider) ==
    IF provider = "None" THEN "awaiting_provider_setup" ELSE "active"

\* the try block: the assistant Message is appended only if the call returned
Web_after(h1, inv) ==
    IF inv.result.ok
    THEN [history |-> Append(h1, Message("assistant", inv.result.val)),
          calls |-> <<inv>>, display |-> "rerun"]
    ELSE [history |-> h1, calls |-> <<inv>>, display |-> "error"]

\* the Send branch of main() once a provider is there: append, call, append
Web_turn(history, provider, text, backend) ==
    LET h1 == Append(history, Message("user", text))
    IN  Web_after(h1, Invocation(provider, h1, backend))

\* variant: the Send test without "and user_input"
Web_send_branch_any_input(provider, user_input) ==
    IF provider = "None" THEN "error" ELSE "turn"

\* if st.button("Send") and user_input: ... if ai_provider is None: ... return
Web_send_branch(provider, user_input) ==
    IF Len(user_input) = 0 THEN "ignore"
    ELSE IF provider = "None" THEN "error"
    ELSE "turn"

\* the Clear Chat branch of main()
Web_clear(history) == <<>>

\* a run with no widget triggered (the first load, a rerun)
WebLoad ==
    /\ frontend = "web"
    /\ LET s == initialize_session_state(session_keys, conversation_history, ai_provider)
       IN  /\ session_keys' = s.keys
           /\ conversation_history' = s.conversation_history
           /\ ai_provider' = s.ai_provider
           /\ pc' = Web_state(s.ai_provider)
    /\ prompt' = <<>>
    /\ last_op' = "load"
    /\ calls' = <<>>
    /\ display' = "page"
    /\ UNCHANGED frontend

\* a run triggered by the sidebar form's Connect button
WebConnect ==
    /\ frontend = "web"
    /\ \E choice \in Providers, constructed \in BOOLEAN :
          LET s == initialize_session_state(session_keys, conversation_history, ai_provider)
              p == IF constructed THEN choice ELSE s.ai_provider
          IN  /\ session_keys' = s.keys
              /\ conversation_history' = s.conversation_history
              /\ ai_provider' = p
              /\ pc' = Web_state(p)
              /\ display' = IF constructed THEN "connected" ELSE "setup_error"
    /\ prompt' = <<>>
    /\ last_op' = "connect"
    /\ calls' = <<>>
    /\ UNCHANGED frontend

\* a run triggered by the Send button
WebSend ==
    /\ frontend = "web"
    /\ \E user_input \in WebInputs :
          LET s == initialize_session_state(session_keys, conversation_history, ai_provider)
          IN  /\ session_keys' = s.keys
              /\ ai_provider' = s.ai_provider
              /\ pc' = Web_state(s.ai_provider)
              /\ prompt' = user_input
              /\ IF Web_send_branch(s.ai_provider, user_input) = "ignore"
                 THEN /\ conversation_history' = s.conversation_history
                      /\ calls' = <<>>
                      /\ display' = "page"
                 ELSE IF Web_send_branch(s.ai_provider, user_input) = "error"
                 THEN /\ conversation_history' = s.conversation_history
                      /\ calls' = <<>>
                      /\ display' = "error"
                 ELSE /\ Len(s.conversation_history) < MaxHistory
                      /\ \E backend \in Backends(s.ai_provider,
                              Append(s.conversation_history, Message("user", user_input))) :
                           \E t \in {Web_turn(s.conversation_history, s.ai_provider,
                                             user_input, backend)} :
                              /\ Len(t.history) <= MaxHistory
                              /\ conversation_history' = t.history
                              /\ calls' = t.calls
                              /\ display' = t.display
    /\ last_op' = "send"
    /\ UNCHANGED frontend

\* a run triggered by the Clear Chat button
WebClear ==
    /\ frontend = "web"
    /\ LET s == initialize_session_state(session_keys, conversation_history, ai_provider)
       IN  /\ session_keys' = s.keys
           /\ ai_provider' = s.ai_provider
           /\ pc' = Web_state(s.ai_provider)
           /\ conversation_history' = Web_clear(s.conversation_history)
    /\ prompt' = <<>>
    /\ last_op' = "clear"
    /\ calls' = <<>>
    /\ display' = "rerun"
    /\ UNCHANGED frontend

---------------------------------------------------------------------------
(* The two front-ends *)

Init ==
    /\ frontend \in {"cli", "web"}
    /\ pc = "awaiting_provider_setup"
    /\ session_keys = {}
    /\ ai_provider = "None"
    /\ conversation_history = <<>>
    /\ prompt = <<>>
    /\ last_op = "start"
    /\ calls = <<>>
    /\ display = "none"

Next ==
    \/ CliSetup
    \/ CliLoop
    \/ WebLoad
    \/ WebConnect
    \/ WebSend
    \/ WebClear

Spec == Init /\ [][Next]_vars

---------------------------------------------------------------------------
(* The adapters alone: two calls of one adapter against mock backends *)

ProbeMessages == {Message(r, t) : r \in {"user", "assistant"}, t \in {T_a, T_c}}

RECURSIVE SeqsUpTo(_, _)
SeqsUpTo(S, n) ==
    IF n = 0 THEN {<<>>}
    ELSE LET shorter == SeqsUpTo(S, n - 1)
         IN  shorter \cup {Append(q, x) : q \in shorter, x \in S}

ProbeHistories == SeqsUpTo(ProbeMessages, MaxProbeLen)

InitAdapter ==
    /\ frontend = "harness"
    /\ pc = "active"
    /\ session_keys = {}
    /\ ai_provider \in Providers
    /\ conversation_history = <<>>
    /\ prompt = <<>>
    /\ last_op = "start"
    /\ calls = <<>>
    /\ display = "none"

HarnessCall ==
    /\ frontend = "harness"
    /\ Len(calls) < 2
    /\ \E messages \in ProbeHistories :
          \E backend \in Backends(ai_provider, messages) :
             calls' = Append(calls, Invocation(ai_provider, messages, backend))
    /\ last_op' = "call"
    /\ UNCHANGED <<frontend, pc, session_keys, ai_provider, conversation_history,
                   prompt, display>>

NextAdapter == HarnessCall

SpecAdapter == InitAdapter /\ [][NextAdapter]_vars

---------------------------------------------------------------------------
(* Vocabulary of the properties *)

IsPrefix(p, q) == Len(p) <= Len(q) /\ SubSeq(q, 1, Len(p)) = p

\* a step of either front-end that ran a conversation turn
TurnStep == last_op \in {"loop", "send"} /\ Len(calls) = 1

\* the contents of the user-role Messages, in order
UserContents(messages) ==
    LET users == SelectSeq(messages, LAMBDA m : m.role = "user")
    IN  [i \in 1..Len(users) |-> users[i].content]

\* the inputs expected to end the command-line loop
EndingInputs == {T_thanks, T_thank_you, T_Thank_You, T_THANKS}

\* the texts an invocation handed to the backend (Watson, DeepAI, Clarifai)
RequestText(request) ==
    CASE request.op = "message" -> request.input.text
      [] request.op = "POST" /\ "data" \in DOMAIN request -> request.data.text
      [] request.op = "POST" /\ "json" \in DOMAIN request -> request.json.inputs[1].data.text.raw

SentTexts(inv) ==
    {RequestText(inv.result.exchanges[i].request) :
        i \in {j \in 1..Len(inv.result.exchanges) :
                  inv.result.exchanges[j].request.op # "create_session"}}

LastOnlyProviders == {"Watson", "DeepAI", "Clarifai"}

---------------------------------------------------------------------------
(* Properties *)

\* C1: in both front-ends a turn whose get_completion returns normally
\* extends the history by exactly two Messages at the end, the user Message
\* with the input and then the assistant Message with the returned text;
\* the earlier Messages stay as they were.
C1_SuccessfulTurnAppendsTwo ==
    [][(TurnStep' /\ calls'[1].result.ok) =>
          conversation_history' =
              conversation_history \o
                  <<Message("user", prompt'),
                    Message("assistant", calls'[1].result.val)>>]_vars

C1_Witness ==
    /\ frontend = "cli"
    /\ TurnStep
    /\ calls[1].result.ok
    /\ Len(conversation_history) = 4

\* C2: in the command-line loop a turn whose get_completion raises, whatever
\* the failure, leaves the history as before plus the one user Message, with
\* no assistant Message and no rollback, and the loop stays active.
C2_FailedTurnKeepsUserMessage ==
    [][(frontend = "cli" /\ TurnStep' /\ ~calls'[1].result.ok) =>
          /\ conversation_history' =
                 Append(conversation_history, Message("user", prompt'))
          /\ pc' = "active"]_vars

C2_Witness ==
    /\ frontend = "cli"
    /\ TurnStep
    /\ ~calls[1].result.ok
    /\ calls[1].result.err = "IndexError"
    /\ pc = "active"
    /\ Len(conversation_history) = 3
    /\ conversation_history[1].role = "user"
    /\ conversation_history[2].role = "user"

\* C3: the command-line loop moves from active to ended exactly on an input
\* that is "thank you" or "thanks" in any letter case; that step appends
\* nothing and calls no adapter; every other input is processed as a turn;
\* once ended nothing changes any more.
C3_TerminationPhraseEndsLoop ==
    /\ [][(frontend = "cli" /\ pc = "active") =>
             /\ last_op' = "loop"
             /\ (pc' = "ended") <=> (prompt' \in EndingInputs)
             /\ (pc' = "ended") =>
                   /\ conversation_history' = conversation_history
                   /\ calls' = <<>>
             /\ (pc' # "ended") =>
                   /\ pc' = "active"
                   /\ Len(calls') = 1
                   /\ Len(conversation_history') > Len(conversation_history)
                   /\ conversation_history'[Len(conversation_history) + 1] =
                          Message("user", prompt')]_vars
    /\ [][(pc = "ended") => UNCHANGED vars]_vars

C3_Witness ==
    /\ frontend = "cli"
    /\ pc = "ended"
    /\ prompt = T_Thank_You
    /\ Len(conversation_history) = 3

\* C4: a Gemini call starts a fresh chat session and sends into it the
\* contents of the user-role Messages in history order, never an assistant
\* Message (all of them unless a send raised); the text it returns is the
\* backend's reply to the last message sent.
C4_GeminiReplaysUserTurns ==
    \A i \in 1..Len(calls) :
        calls[i].provider = "Gemini" =>
            LET ex == calls[i].result.exchanges
                sent == [j \in 1..Len(ex) |-> ex[j].request.content]
                users == UserContents(calls[i].messages)
            IN  /\ IsPrefix(sent, users)
                /\ (sent # users) =>
                      /\ ~calls[i].result.ok
                      /\ Last(ex).canned.kind = "transport"
                /\ \A j \in 1..Len(ex) :
                      /\ ex[j].request.op = "send_message"
                      /\ ex[j].request.prior = 2 * (j - 1)
                /\ calls[i].result.ok =>
                      /\ sent = users
                      /\ Last(ex).canned.kind = "text"
                      /\ calls[i].result.val = Last(ex).canned.text

C4_Witness ==
    /\ TurnStep
    /\ calls[1].provider = "Gemini"
    /\ calls[1].messages =
           <<Message("user", T_a), Message("assistant", T_b), Message("user", T_c)>>
    /\ calls[1].result.ok
    /\ calls[1].result.val = T_ok
    /\ calls[1].result.exchanges[1].canned.text = T_b
    /\ Len(calls[1].result.exchanges) = 2

\* C5 as stated: in every step of either front-end, Clear Chat included, the
\* history before the step is a prefix of the history after it.
C5_HistoryNeverShrinks ==
    [][IsPrefix(conversation_history, conversation_history')]_vars

\* C5 as amended: in every step other than Clear Chat the history before the
\* step is a prefix of the history after it; Clear Chat empties the history.
C5_HistoryGrowsUntilCleared ==
    [][/\ (last_op' # "clear") =>
             IsPrefix(conversation_history, conversation_history')
       /\ (last_op' = "clear") => conversation_history' = <<>>]_vars

C5_Witness ==
    /\ frontend = "web"
    /\ TurnStep
    /\ ~calls[1].result.ok
    /\ Len(conversation_history) = 3
    /\ conversation_history[2].role = "assistant"

\* C6: for each of the five variants, get_completion on a history of one
\* user Message returns exactly the text the backend answered with.
C6_SingleMessageReturnsCannedText ==
    \A i \in 1..Len(calls) :
        (/\ Len(calls[i].messages) = 1
         /\ calls[i].messages[1].role = "user"
         /\ calls[i].result.ok) =>
            /\ Len(calls[i].result.exchanges) >= 1
            /\ Last(calls[i].result.exchanges).canned.kind = "text"
            /\ calls[i].result.val = Last(calls[i].result.exchanges).canned.text

C6_Witness ==
    /\ frontend = "harness"
    /\ ai_provider = "Clarifai"
    /\ Len(calls) = 1
    /\ calls[1].messages = <<Message("user", T_a)>>
    /\ calls[1].result.ok
    /\ calls[1].result.val = T_ok

\* C7: an OpenAI call makes exactly one request, carrying the whole history
\* it was given, unchanged, with temperature 0; in a front-end that history
\* is every Message accumulated so far, the user Messages of failed turns
\* included.
C7_OpenAISendsWholeHistory ==
    (TurnStep /\ calls[1].provider = "OpenAI") =>
        LET ex == calls[1].result.exchanges
        IN  /\ Len(ex) = 1
            /\ ex[1].request.op = "chat.completions.create"
            /\ ex[1].request.temperature = 0
            /\ ex[1].request.messages =
                   IF calls[1].result.ok
                   THEN SubSeq(conversation_history, 1, Len(conversation_history) - 1)
                   ELSE conversation_history

C7_Witness ==
    /\ frontend = "cli"
    /\ TurnStep
    /\ calls[1].provider = "OpenAI"
    /\ calls[1].result.ok
    /\ Len(conversation_history) = 4
    /\ conversation_history[1].role = "user"
    /\ conversation_history[2].role = "user"
    /\ Len(calls[1].result.exchanges[1].request.messages) = 3

\* C8: a Watson, DeepAI or Clarifai call hands the backend the content of the
\* last Message and nothing else of the history: two calls on non-empty
\* histories with the same last content send the same text; a Watson call
\* opens exactly one new session, first.
C8_LastOnlyRequestIgnoresEarlierTurns ==
    /\ \A i \in 1..Len(calls) :
          (calls[i].provider \in LastOnlyProviders /\ Len(calls[i].messages) > 0) =>
              /\ SentTexts(calls[i]) \subseteq {Last(calls[i].messages).content}
              /\ Len(calls[i].result.exchanges) <=
                     (IF calls[i].provider = "Watson" THEN 2 ELSE 1)
              /\ calls[i].result.ok => SentTexts(calls[i]) # {}
              /\ calls[i].provider = "Watson" =>
                    /\ calls[i].result.exchanges[1].request.op = "create_session"
                    /\ \A j \in 2..Len(calls[i].result.exchanges) :
                          calls[i].result.exchanges[j].request.op = "message"
    /\ \A i, k \in 1..Len(calls) :
          (/\ calls[i].provider \in LastOnlyProviders
           /\ calls[k].provider = calls[i].provider
           /\ Len(calls[i].messages) > 0
           /\ Len(calls[k].messages) > 0
           /\ Last(calls[i].messages).content = Last(calls[k].messages).content) =>
              \A t1 \in SentTexts(calls[i]), t2 \in SentTexts(calls[k]) : t1 = t2

C8_Witness ==
    /\ frontend = "harness"
    /\ ai_provider = "Watson"
    /\ Len(calls) = 2
    /\ calls[1].messages = <<Message("user", T_c), Message("user", T_a)>>
    /\ calls[2].messages = <<Message("assistant", T_a), Message("user", T_a)>>
    /\ SentTexts(calls[1]) = {T_a}
    /\ SentTexts(calls[2]) = {T_a}

\* C9: whenever a front-end invokes get_completion the history it passes is
\* non-empty and ends with the user Message of the current input.
C9_CallPrecondition ==
    (frontend \in {"cli", "web"}) =>
        \A i \in 1..Len(calls) :
            /\ Len(calls[i].messages) >= 1
            /\ Last(calls[i].messages).role = "user"
            /\ Last(calls[i].messages).content = prompt

C9_Witness ==
    /\ frontend = "web"
    /\ TurnStep
    /\ Len(calls[1].messages) = 3
    /\ calls[1].messages[1].role = "user"
    /\ calls[1].messages[2].role = "user"
    /\ calls[1].messages[3] = Message("user", T_c)

\* C10: in the Streamlit page nothing is sent or appended while no provider
\* is configured: Send with a non-empty input then shows an error and leaves
\* history and provider as they were; Send with an empty input never appends
\* a Message or calls the adapter.
C10_NoTurnWithoutProvider ==
    /\ [][(frontend = "web" /\ ai_provider = "None" /\ last_op' = "send"
              /\ prompt' # <<>>) =>
             /\ display' = "error"
             /\ conversation_history' = conversation_history
             /\ ai_provider' = "None"
             /\ calls' = <<>>]_vars
    /\ [][(frontend = "web" /\ last_op' = "send" /\ prompt' = <<>>) =>
             /\ conversation_history' = conversation_history
             /\ calls' = <<>>]_vars
    /\ [][(frontend = "web" /\ ai_provider = "None") =>
             /\ calls' = <<>>
             /\ conversation_history' = <<>>]_vars

C10_Witness ==
    /\ frontend = "web"
    /\ last_op = "send"
    /\ ai_provider = "None"
    /\ pc = "awaiting_provider_setup"
    /\ prompt = T_a
    /\ display = "error"
    /\ conversation_history = <<>>

===========================================================================
